---- MODULE Spec2Model ----
(***************************************************************************)
(* Credential custody core of the token service: the storage class         *)
(* SecureTokenStorage (database.py) over a PostgreSQL database, and the    *)
(* FastAPI handlers of api_server.py that broker access to it.             *)
(*                                                                         *)
(* The database is the shared state: the users table and the tokens table. *)
(* Callers are processes.  A call of save_token is two steps, because the  *)
(* code runs SELECT and then UPDATE-or-INSERT in one READ COMMITTED        *)
(* transaction: the SELECT (with the BEGIN that psycopg2 issues before it) *)
(* and the write with its commit.  Every other store operation issues one  *)
(* statement and is one step, and so is every API handler, which makes at  *)
(* most one store call.                                                    *)
(***************************************************************************)
EXTENDS Integers, Sequences, FiniteSets, TLC

(***************************************************************************)
(* Bounds of the model.                                                    *)
(***************************************************************************)
MaxRows == 2        \* rows the tokens table may hold (INSERT is capped)
MaxTicks == 1       \* times the clock advances

(***************************************************************************)
(* Program constants.                                                      *)
(***************************************************************************)
JWT_EXPIRY_HOURS == 24
encryption_key == "ENCRYPTION_KEY"
\* The key of a storage instance built without ENCRYPTION_KEY in its
\* environment: Fernet.generate_key(), different for every instance.
generated_key == "GENERATED_KEY"

(***************************************************************************)
(* Input sets.                                                             *)
(***************************************************************************)
Procs == {"p1", "p2"}
Users == {"alice", "bob"}
Passwords == {"pw1", "pw2"}
Tokens == {"tokA", "tokB"}
Methods == {"auto", "manual"}
Payloads == {<<"tokA", "auto">>, <<"tokB", "manual">>}
Applications == {"app1", "app2"}
Purposes == {"sync"}
None == "None"                  \* Python None where a str is expected
NoneRec == [is_none |-> TRUE]   \* Python None where a row or dict is expected
\* What the database does to one call: it works, get_connection returns
\* None (psycopg2.connect failed), or a statement raises psycopg2.Error.
DbOutcomes == {"ok", "noconn", "error"}
\* The clock advances in steps just longer than a session lives, so that
\* one step takes a session from valid to expired.
HoursPerTick == JWT_EXPIRY_HOURS + 1
Times == {i * HoursPerTick : i \in 0..MaxTicks}

VARIABLES
    users,      \* the users table: username -> password_hash (username UNIQUE)
    tokens,     \* the tokens table: bag of rows, no constraint on user_id
    clock,      \* wall clock, in hours
    pc,         \* per process: "idle", or "selected" inside save_token
    call,       \* per process: the locals of its running save_token
    last,       \* the most recently completed call: request and result
    session,    \* st.session_state of the onboarding wizard (app.py)
    token_file, \* the file data/token_data.json the wizard writes
    environ,    \* os.environ of the API server process, read at its start
    client      \* the attributes of one SecureTokenClient (token_client.py)

vars ==
    <<users, tokens, clock, pc, call, last, session, token_file, environ,
      client>>

\* A key that a dict (os.environ, st.session_state) does not hold.
Absent == "Absent"

\* os.getenv(name, default)
getenv(name, default) ==
    IF environ[name] = Absent THEN default ELSE environ[name]

\* The fallback api_server.py holds for a process started without
\* JWT_SECRET in its environment.
DefaultJwtSecret == "your-jwt-secret-key-change-this"

JWT_SECRET == getenv("JWT_SECRET", DefaultJwtSecret)

\* The environment of a deployed server, and the environments a server may
\* be started in.
ConfiguredEnviron == [JWT_SECRET |-> "JWT_SECRET"]
Environs == {ConfiguredEnviron, [JWT_SECRET |-> Absent]}

NoCall == [user_id |-> None]
NoLast == [op |-> "none"]

(***************************************************************************)
(* Crypto envelope: Fernet is authenticated encryption, so a ciphertext    *)
(* decrypts only under the key that produced it.                           *)
(***************************************************************************)
encrypt_token(token) ==
    [alg |-> "fernet", key |-> encryption_key, pt |-> token]

decrypt_token(encrypted_token) ==
    IF encrypted_token.alg = "fernet" /\ encrypted_token.key = encryption_key
    THEN encrypted_token.pt
    ELSE None

hash_password(password) == <<"sha256", password>>

isoformat(t) == <<"iso", t>>

(***************************************************************************)
(* The tokens table.  The program never reads the serial id of a row (the  *)
(* SELECT id of save_token only tests for a row), so the table is the bag  *)
(* of its rows without the id: row -> number of copies.                    *)
(***************************************************************************)
RowsOf(user_id) == {r \in DOMAIN tokens : r.user_id = user_id}

RECURSIVE SumOver(_, _)
SumOver(S, f) ==
    IF S = {} THEN 0
    ELSE LET x == CHOOSE y \in S : TRUE
         IN  f[x] + SumOver(S \ {x}, f)

CountRows(user_id) == SumOver(RowsOf(user_id), tokens)

TotalRows == SumOver(DOMAIN tokens, tokens)

\* The connections an operation of SecureTokenStorage has left open when it
\* returns: get_connection gives it one unless connecting fails, and the
\* finally clause of the operation closes the one it got.
open_connections(db) ==
    LET acquired == IF db = "noconn" THEN 0 ELSE 1
        closed == acquired
    IN  acquired - closed

\* The locals of a save_token call after its SELECT.
SaveCall(user_id, token, generation_method) ==
    [user_id |-> user_id,
     encrypted_token |-> encrypt_token(token),
     token |-> token,
     generation_method |-> generation_method,
     found |-> RowsOf(user_id) # {},
     txn_time |-> clock]

(***************************************************************************)
(* save_token, first step: get_connection, encrypt_token, BEGIN + SELECT.  *)
(* conn = FALSE is get_connection returning None.                          *)
(***************************************************************************)
save_token_select(p, user_id, token, generation_method, conn) ==
    /\ pc[p] = "idle"
    /\ IF ~conn
       THEN /\ last' = [op |-> "save_token", user_id |-> user_id,
                        token |-> token, generation_method |-> generation_method,
                        ret |-> FALSE, branch |-> "noconn", peers |-> {},
                        open_conns |-> open_connections("noconn")]
            /\ UNCHANGED <<pc, call>>
       ELSE /\ pc' = [pc EXCEPT ![p] = "selected"]
            /\ call' = [call EXCEPT ![p] =
                          SaveCall(user_id, token, generation_method)]
            /\ UNCHANGED last
    /\ UNCHANGED <<client, environ, users, tokens, clock, session, token_file>>

Updated_no_where(r, c) ==
    [r EXCEPT !.encrypted_token = c.encrypted_token,
              !.generation_method = c.generation_method,
              !.updated_at = c.txn_time]

Updated(r, c) ==
    IF r.user_id = c.user_id
    THEN [r EXCEPT !.encrypted_token = c.encrypted_token,
                   !.generation_method = c.generation_method,
                   !.updated_at = c.txn_time]
    ELSE r

UpdateRows(c) ==
    LET image == {Updated(r, c) : r \in DOMAIN tokens}
    IN  [n \in image |->
            SumOver({r \in DOMAIN tokens : Updated(r, c) = n}, tokens)]

NewRow(c) ==
    [user_id |-> c.user_id,
     encrypted_token |-> c.encrypted_token,
     generation_method |-> c.generation_method,
     created_at |-> c.txn_time,
     updated_at |-> c.txn_time]

InsertRow_not_applied(c) ==
    tokens

InsertRow(c) ==
    LET n == NewRow(c)
    IN  [r \in DOMAIN tokens \cup {n} |->
            IF r = n
            THEN (IF n \in DOMAIN tokens THEN tokens[n] ELSE 0) + 1
            ELSE tokens[r]]

(***************************************************************************)
(* save_token, second step: UPDATE or INSERT, commit, return True; or a    *)
(* psycopg2.Error (dberr), after which close() rolls the transaction back. *)
(***************************************************************************)
save_token_write_no_rollback(p, dberr) ==
    /\ pc[p] = "selected"
    /\ LET c == call[p]
       IN  /\ IF c.found
              THEN tokens' = UpdateRows(c)
              ELSE /\ TotalRows < MaxRows
                   /\ tokens' = InsertRow(c)
           /\ last' = [op |-> "save_token", user_id |-> c.user_id,
                       token |-> c.token,
                       generation_method |-> c.generation_method,
                       ret |-> ~dberr,
                       branch |-> IF dberr THEN "error"
                                  ELSE IF c.found THEN "update" ELSE "insert",
                       peers |-> {},
                       open_conns |-> 0]
    /\ pc' = [pc EXCEPT ![p] = "idle"]
    /\ call' = [call EXCEPT ![p] = NoCall]
    /\ UNCHANGED <<client, environ, users, clock, session, token_file>>

save_token_write(p, dberr) ==
    /\ pc[p] = "selected"
    /\ LET c == call[p]
           peers == {q \in Procs \ {p} : pc[q] = "selected"
                                         /\ call[q].user_id = c.user_id}
       IN  /\ IF dberr
              THEN UNCHANGED tokens
              ELSE IF c.found
                   THEN tokens' = UpdateRows(c)
                   ELSE /\ TotalRows < MaxRows
                        /\ tokens' = InsertRow(c)
           /\ last' = [op |-> "save_token", user_id |-> c.user_id,
                       token |-> c.token,
                       generation_method |-> c.generation_method,
                       ret |-> ~dberr,
                       branch |-> IF dberr THEN "error"
                                  ELSE IF c.found THEN "update" ELSE "insert",
                       peers |-> peers,
                       open_conns |-> open_connections(
                                         IF dberr THEN "error" ELSE "ok")]
    /\ pc' = [pc EXCEPT ![p] = "idle"]
    /\ call' = [call EXCEPT ![p] = NoCall]
    /\ UNCHANGED <<client, environ, users, clock, session, token_file>>

(***************************************************************************)
(* save_token as one step: a call that no other statement interleaves.     *)
(* db = "noconn": get_connection returned None; db = "error": a statement  *)
(* raised psycopg2.Error and close() rolled the transaction back.          *)
(***************************************************************************)
save_token(user_id, token, generation_method, db) ==
    LET c == SaveCall(user_id, token, generation_method)
    IN  /\ IF db # "ok"
           THEN UNCHANGED tokens
           ELSE IF c.found
                THEN tokens' = UpdateRows(c)
                ELSE /\ TotalRows < MaxRows
                     /\ tokens' = InsertRow(c)
        /\ last' = [op |-> "save_token", user_id |-> user_id,
                    token |-> token,
                    generation_method |-> generation_method,
                    ret |-> (db = "ok"),
                    branch |-> IF db # "ok" THEN db
                               ELSE IF c.found THEN "update" ELSE "insert",
                    peers |-> {},
                    open_conns |-> open_connections(db)]
        /\ UNCHANGED <<client, environ, users, clock, pc, call, session, token_file>>

(***************************************************************************)
(* save_token called on another SecureTokenStorage instance over the same  *)
(* database, one that generated its own key: the same statements, with the *)
(* ciphertext under generated_key.                                         *)
(***************************************************************************)
save_token_generated_key(user_id, token, generation_method) ==
    LET c == [SaveCall(user_id, token, generation_method)
                EXCEPT !.encrypted_token =
                   [alg |-> "fernet", key |-> generated_key, pt |-> token]]
    IN  /\ IF c.found
           THEN tokens' = UpdateRows(c)
           ELSE /\ TotalRows < MaxRows
                /\ tokens' = InsertRow(c)
        /\ last' = [op |-> "save_token", user_id |-> user_id,
                    token |-> token,
                    generation_method |-> generation_method,
                    ret |-> TRUE,
                    branch |-> IF c.found THEN "update" ELSE "insert",
                    peers |-> {},
                    open_conns |-> open_connections("ok")]
        /\ UNCHANGED <<client, environ, users, clock, pc, call, session, token_file>>

(***************************************************************************)
(* fetchone of get_token: the SELECT has no ORDER BY, so with several rows *)
(* for one user any of them may come first.  FetchChoices is the set of    *)
(* rows fetchone may return; {NoneRec} when no row matches.                 *)
(***************************************************************************)
FetchChoices(user_id) ==
    IF RowsOf(user_id) = {} THEN {NoneRec} ELSE RowsOf(user_id)

(***************************************************************************)
(* get_token's return value: None without a connection (db = "noconn"),    *)
(* on a database error or without a row; else the record built from the    *)
(* fetched row.                                                            *)
(***************************************************************************)
get_token_result(row, db) ==
    IF db # "ok" \/ row = NoneRec
    THEN NoneRec
    ELSE [token |-> decrypt_token(row.encrypted_token),
          generation_method |-> row.generation_method,
          created_at |-> isoformat(row.created_at),
          updated_at |-> isoformat(row.updated_at)]

get_token(user_id, row, db) ==
    /\ row \in FetchChoices(user_id)
    /\ last' = [op |-> "get_token", user_id |-> user_id,
                ret |-> get_token_result(row, db),
                open_conns |-> open_connections(db)]
    /\ UNCHANGED <<client, environ, users, tokens, clock, pc, call, session, token_file>>

(***************************************************************************)
(* delete_token of the store: DELETE ... WHERE user_id, commit, and the    *)
(* result rowcount > 0; False without a connection or on a database error  *)
(* (the transaction is then rolled back by close).                         *)
(***************************************************************************)
DeleteRows(user_id) ==
    [r \in DOMAIN tokens \ RowsOf(user_id) |-> tokens[r]]

delete_token_result_any_rowcount(user_id, db) ==
    IF db # "ok" THEN FALSE ELSE CountRows(user_id) >= 0

delete_token_result(user_id, db) ==
    IF db # "ok" THEN FALSE ELSE CountRows(user_id) > 0

delete_token_effect_not_committed(user_id, db) ==
    tokens

delete_token_effect(user_id, db) ==
    IF db # "ok" THEN tokens ELSE DeleteRows(user_id)

delete_token(user_id, db) ==
    /\ tokens' = delete_token_effect(user_id, db)
    /\ last' = [op |-> "delete_token", user_id |-> user_id,
                ret |-> delete_token_result(user_id, db),
                open_conns |-> open_connections(db)]
    /\ UNCHANGED <<client, environ, users, clock, pc, call, session, token_file>>

(***************************************************************************)
(* create_user: one INSERT into users and its commit.  username is UNIQUE, *)
(* so a second INSERT for a username raises IntegrityError.                *)
(***************************************************************************)
create_user_result(username, db) ==
    db = "ok" /\ username \notin DOMAIN users

create_user_effect(username, password_hash, db) ==
    IF create_user_result(username, db)
    THEN [u \in DOMAIN users \cup {username} |->
            IF u = username THEN password_hash ELSE users[u]]
    ELSE users

create_user(username, password_hash, db) ==
    /\ users' = create_user_effect(username, password_hash, db)
    /\ last' = [op |-> "create_user", username |-> username, db |-> db,
                ret |-> create_user_result(username, db),
                open_conns |-> open_connections(db)]
    /\ UNCHANGED <<client, environ, tokens, clock, pc, call, session, token_file>>

(***************************************************************************)
(* verify_user: SELECT id FROM users WHERE username AND password_hash.     *)
(***************************************************************************)
verify_user_result(username, password_hash, db) ==
    /\ db = "ok"
    /\ username \in DOMAIN users
    /\ users[username] = password_hash

(***************************************************************************)
(* Session credentials.  A JWT is its payload and the key that signed it;  *)
(* anything that does not parse as a JWT has kind "garbage".               *)
(***************************************************************************)
NoSub == "NoSub"    \* a payload without the "sub" claim

create_jwt_token(sub, now, expires_delta) ==
    [kind |-> "jwt",
     sub |-> sub,
     exp |-> IF expires_delta # 0 THEN now + expires_delta
             ELSE now + JWT_EXPIRY_HOURS,
     key |-> JWT_SECRET]

(***************************************************************************)
(* jwt.decode of PyJWT: the segments are parsed (DecodeError), then the    *)
(* signature is verified (InvalidSignatureError), then the exp claim       *)
(* (ExpiredSignatureError when exp <= now).                                *)
(***************************************************************************)
jwt_decode_no_exp(token, now) ==
    IF token.kind # "jwt"
    THEN [ok |-> FALSE, exc |-> "DecodeError"]
    ELSE IF token.key # JWT_SECRET
    THEN [ok |-> FALSE, exc |-> "InvalidSignatureError"]
    ELSE [ok |-> TRUE, sub |-> token.sub, exp |-> token.exp]

jwt_decode(token, now) ==
    IF token.kind # "jwt"
    THEN [ok |-> FALSE, exc |-> "DecodeError"]
    ELSE IF token.key # JWT_SECRET
    THEN [ok |-> FALSE, exc |-> "InvalidSignatureError"]
    ELSE IF token.exp <= now
    THEN [ok |-> FALSE, exc |-> "ExpiredSignatureError"]
    ELSE [ok |-> TRUE, sub |-> token.sub, exp |-> token.exp]

(***************************************************************************)
(* The exception classes the module jwt (PyJWT) exports that the except    *)
(* clauses of verify_jwt_token name.  jwt.JWTError is not one of them      *)
(* (it is python-jose's name), so evaluating that clause raises            *)
(* AttributeError in place of handling the exception.                      *)
(***************************************************************************)
JwtModuleNames == {"ExpiredSignatureError", "InvalidSignatureError",
                   "DecodeError", "InvalidTokenError", "PyJWTError"}

HTTPException(status_code, detail) ==
    [kind |-> "http", status |-> status_code, detail |-> detail]

Unhandled(exc) == [kind |-> "raise", exc |-> exc]

verify_jwt_token(token, now) ==
    LET d == jwt_decode(token, now)
    IN  IF d.ok
        THEN [kind |-> "ok", sub |-> d.sub]
        ELSE IF d.exc = "ExpiredSignatureError"
        THEN HTTPException(401, "Token has expired")
        ELSE IF "JWTError" \in JwtModuleNames
        THEN HTTPException(401, "Invalid token")
        ELSE Unhandled("AttributeError")

get_current_user_revocable(token, now) ==
    LET payload == verify_jwt_token(token, now)
    IN  IF payload.kind # "ok"
        THEN payload
        ELSE IF payload.sub = NoSub
        THEN HTTPException(401, "Invalid authentication credentials")
        ELSE IF RowsOf(payload.sub) = {}
        THEN HTTPException(401, "Session revoked")
        ELSE payload

get_current_user(token, now) ==
    LET payload == verify_jwt_token(token, now)
    IN  IF payload.kind # "ok"
        THEN payload
        ELSE IF payload.sub = NoSub
        THEN HTTPException(401, "Invalid authentication credentials")
        ELSE payload

(***************************************************************************)
(* What the client receives: a handler's return value is a 200 response,   *)
(* an HTTPException its status and detail, any other exception a 500.      *)
(***************************************************************************)
Response(status, body) == [status |-> status, body |-> body]

ErrorResponse(e) ==
    IF e.kind = "http"
    THEN Response(e.status, [detail |-> e.detail])
    ELSE Response(500, [detail |-> "Internal Server Error"])

(***************************************************************************)
(* POST /auth/login                                                        *)
(***************************************************************************)
login_response_enumerating(username, password, db) ==
    IF username \notin DOMAIN users
    THEN ErrorResponse(HTTPException(401, "Unknown username"))
    ELSE IF ~verify_user_result(username, hash_password(password), db)
    THEN ErrorResponse(HTTPException(401, "Invalid username or password"))
    ELSE Response(200,
            [access_token |-> create_jwt_token(username, clock,
                                               JWT_EXPIRY_HOURS),
             token_type |-> "bearer",
             expires_in |-> JWT_EXPIRY_HOURS * 3600])

login_response(username, password, db) ==
    IF ~verify_user_result(username, hash_password(password), db)
    THEN ErrorResponse(HTTPException(401, "Invalid username or password"))
    ELSE Response(200,
            [access_token |-> create_jwt_token(username, clock,
                                               JWT_EXPIRY_HOURS),
             token_type |-> "bearer",
             expires_in |-> JWT_EXPIRY_HOURS * 3600])

login(username, password, db) ==
    /\ last' = [op |-> "login", username |-> username,
                password |-> password, now |-> clock,
                resp |-> login_response(username, password, db)]
    /\ UNCHANGED <<client, environ, users, tokens, clock, pc, call, session, token_file>>

(***************************************************************************)
(* POST /tokens/access                                                     *)
(***************************************************************************)
access_token_response_no_authz(token, user_id, row, db) ==
    LET current_user == get_current_user(token, clock)
        token_data == get_token_result(row, db)
    IN  IF current_user.kind # "ok"
        THEN ErrorResponse(current_user)
        ELSE IF token_data = NoneRec
        THEN ErrorResponse(HTTPException(404, "Token not found for this user"))
        ELSE Response(200,
                [token |-> token_data.token,
                 generation_method |-> token_data.generation_method,
                 created_at |-> token_data.created_at,
                 accessed_at |-> isoformat(clock)])

access_token_response(token, user_id, row, db) ==
    LET current_user == get_current_user(token, clock)
        token_data == get_token_result(row, db)
    IN  IF current_user.kind # "ok"
        THEN ErrorResponse(current_user)
        ELSE IF current_user.sub # user_id
        THEN ErrorResponse(HTTPException(403, "Access denied to this token"))
        ELSE IF token_data = NoneRec
        THEN ErrorResponse(HTTPException(404, "Token not found for this user"))
        ELSE IF token_data.token = None
        THEN ErrorResponse(Unhandled("ValidationError"))
        ELSE Response(200,
                [token |-> token_data.token,
                 generation_method |-> token_data.generation_method,
                 created_at |-> token_data.created_at,
                 accessed_at |-> isoformat(clock)])

\* Whether a handler got past authentication and authorization, to its
\* store call.
Authorized(token, user_id) ==
    LET current_user == get_current_user(token, clock)
    IN  current_user.kind = "ok" /\ current_user.sub = user_id

\* What access_token prints before it builds its response.
access_token_stdout_silent(token, user_id, row, db, application_name, purpose) ==
    << >>

access_token_stdout(token, user_id, row, db, application_name, purpose) ==
    IF Authorized(token, user_id) /\ get_token_result(row, db) # NoneRec
    THEN << <<"Token accessed by", get_current_user(token, clock).sub,
              "for application:", application_name>>,
            <<"Purpose:", purpose>>,
            <<"Access time:", isoformat(clock)>> >>
    ELSE << >>

access_token(token, user_id, application_name, purpose, row, db) ==
    /\ row \in FetchChoices(user_id)
    /\ last' = [op |-> "access_token", token |-> token, user_id |-> user_id,
                application_name |-> application_name, purpose |-> purpose,
                now |-> clock, db |-> db,
                store |-> IF Authorized(token, user_id) THEN "read"
                          ELSE "none",
                stdout |-> access_token_stdout(token, user_id, row, db,
                                               application_name, purpose),
                resp |-> access_token_response(token, user_id, row, db)]
    /\ UNCHANGED <<client, environ, users, tokens, clock, pc, call, session, token_file>>

(***************************************************************************)
(* GET /tokens/status/{user_id}                                            *)
(***************************************************************************)
token_status_response_leaky(token, user_id, row, db) ==
    LET current_user == get_current_user(token, clock)
        token_data == get_token_result(row, db)
    IN  IF current_user.kind # "ok"
        THEN ErrorResponse(current_user)
        ELSE IF current_user.sub # user_id
        THEN ErrorResponse(HTTPException(403, "Access denied"))
        ELSE IF token_data # NoneRec
        THEN Response(200, [token_data EXCEPT !.token = token_data.token]
                           @@ [has_token |-> TRUE])
        ELSE Response(200, [has_token |-> FALSE])

token_status_response_exists_first(token, user_id, row, db) ==
    LET current_user == get_current_user(token, clock)
        token_data == get_token_result(row, db)
    IN  IF current_user.kind # "ok"
        THEN ErrorResponse(current_user)
        ELSE IF token_data = NoneRec
        THEN Response(200, [has_token |-> FALSE])
        ELSE IF current_user.sub # user_id
        THEN ErrorResponse(HTTPException(403, "Access denied"))
        ELSE Response(200,
                [has_token |-> TRUE,
                 generation_method |-> token_data.generation_method,
                 created_at |-> token_data.created_at,
                 updated_at |-> token_data.updated_at])

token_status_response(token, user_id, row, db) ==
    LET current_user == get_current_user(token, clock)
        token_data == get_token_result(row, db)
    IN  IF current_user.kind # "ok"
        THEN ErrorResponse(current_user)
        ELSE IF current_user.sub # user_id
        THEN ErrorResponse(HTTPException(403, "Access denied"))
        ELSE IF token_data # NoneRec
        THEN Response(200,
                [has_token |-> TRUE,
                 generation_method |-> token_data.generation_method,
                 created_at |-> token_data.created_at,
                 updated_at |-> token_data.updated_at])
        ELSE Response(200, [has_token |-> FALSE])

token_status(token, user_id, row, db) ==
    /\ row \in FetchChoices(user_id)
    /\ last' = [op |-> "token_status", token |-> token, user_id |-> user_id,
                now |-> clock, db |-> db,
                store |-> IF Authorized(token, user_id) THEN "read"
                          ELSE "none",
                resp |-> token_status_response(token, user_id, row, db)]
    /\ UNCHANGED <<client, environ, users, tokens, clock, pc, call, session, token_file>>

(***************************************************************************)
(* DELETE /tokens/{user_id}                                                *)
(***************************************************************************)
api_delete_token_response(token, user_id, db) ==
    LET current_user == get_current_user(token, clock)
    IN  IF current_user.kind # "ok"
        THEN ErrorResponse(current_user)
        ELSE IF current_user.sub # user_id
        THEN ErrorResponse(HTTPException(403, "Access denied"))
        ELSE IF delete_token_result(user_id, db)
        THEN Response(200, [message |-> "Token deleted successfully"])
        ELSE ErrorResponse(HTTPException(404, "Token not found"))

api_delete_token_cascade(token, user_id, db) ==
    /\ tokens' = IF Authorized(token, user_id)
                 THEN delete_token_effect(user_id, db)
                 ELSE tokens
    /\ users' = IF Authorized(token, user_id) /\ db = "ok"
                THEN [u \in DOMAIN users \ {user_id} |-> users[u]]
                ELSE users
    /\ last' = [op |-> "api_delete_token", token |-> token,
                user_id |-> user_id, now |-> clock, db |-> db,
                store |-> IF Authorized(token, user_id) THEN "write"
                          ELSE "none",
                resp |-> api_delete_token_response(token, user_id, db)]
    /\ UNCHANGED <<client, environ, clock, pc, call, session, token_file>>

api_delete_token(token, user_id, db) ==
    /\ tokens' = IF Authorized(token, user_id)
                 THEN delete_token_effect(user_id, db)
                 ELSE tokens
    /\ last' = [op |-> "api_delete_token", token |-> token,
                user_id |-> user_id, now |-> clock, db |-> db,
                store |-> IF Authorized(token, user_id) THEN "write"
                          ELSE "none",
                resp |-> api_delete_token_response(token, user_id, db)]
    /\ UNCHANGED <<client, environ, users, clock, pc, call, session, token_file>>

(***************************************************************************)
(* The second encryption layer of EnhancedSecureTokenStorage               *)
(* (database_encrypted.py, use_postgres_encryption = True): each call      *)
(* opens a connection of its own for one SELECT pgp_sym_encrypt /          *)
(* pgp_sym_decrypt.  The connection is closed after fetchone(); without a  *)
(* connection the function falls off its end and returns None; when the    *)
(* statement raises, the except clause returns the argument.               *)
(***************************************************************************)
postgres_key == "POSTGRES_ENCRYPTION_KEY"

encrypt_for_postgres_result(data, db) ==
    IF db = "noconn" THEN NoneRec
    ELSE IF db = "error" THEN data
    ELSE [alg |-> "pgp", key |-> postgres_key, pt |-> data]

encrypt_for_postgres_open(data, db) ==
    LET acquired == IF db = "noconn" THEN 0 ELSE 1
        closed == IF db = "ok" THEN 1 ELSE 0
    IN  acquired - closed

encrypt_for_postgres(data, db) ==
    /\ last' = [op |-> "encrypt_for_postgres", db |-> db,
                ret |-> encrypt_for_postgres_result(data, db),
                open_conns |-> encrypt_for_postgres_open(data, db)]
    /\ UNCHANGED <<client, environ, users, tokens, clock, pc, call, session, token_file>>

\* What psycopg2 gives for a value of a BYTEA column: a memoryview of the
\* bytes that were stored.
memoryview(v) == [alg |-> "memoryview", of |-> v]

\* pgp_sym_decrypt raises unless its argument was encrypted under the key.
pgp_sym_decrypt_ok(encrypted_data) ==
    LET bytes == IF encrypted_data.alg = "memoryview"
                 THEN encrypted_data.of ELSE encrypted_data
    IN  bytes.alg = "pgp" /\ bytes.key = postgres_key

\* The methods of the Python 3 type str that the program calls on the
\* text pgp_sym_decrypt returns.  decode is a method of bytes, not of
\* str, so result[0].decode() raises AttributeError and the except
\* clause returns the argument.
StrMethods == {"encode"}

decrypt_from_postgres_result(encrypted_data, db) ==
    IF encrypted_data = NoneRec THEN NoneRec
    ELSE IF db = "noconn" THEN NoneRec
    ELSE IF /\ db = "ok"
            /\ pgp_sym_decrypt_ok(encrypted_data)
            /\ "decode" \in StrMethods
    THEN (IF encrypted_data.alg = "memoryview"
          THEN encrypted_data.of.pt ELSE encrypted_data.pt)
    ELSE encrypted_data

decrypt_from_postgres_open(encrypted_data, db) ==
    LET acquired == IF encrypted_data = NoneRec \/ db = "noconn"
                    THEN 0 ELSE 1
        closed == IF /\ encrypted_data # NoneRec
                     /\ db = "ok"
                     /\ pgp_sym_decrypt_ok(encrypted_data)
                  THEN 1 ELSE 0
    IN  acquired - closed

decrypt_from_postgres(encrypted_data, db) ==
    /\ last' = [op |-> "decrypt_from_postgres", db |-> db,
                ret |-> decrypt_from_postgres_result(encrypted_data, db),
                open_conns |-> decrypt_from_postgres_open(encrypted_data, db)]
    /\ UNCHANGED <<client, environ, users, tokens, clock, pc, call, session, token_file>>

(***************************************************************************)
(* EnhancedSecureTokenStorage with use_postgres_encryption = True, over a  *)
(* tokens table that has the column encrypted_token_pgp (BYTEA).  db is    *)
(* what the database does to the connection of the call, pg what it does   *)
(* to the connection encrypt_for_postgres / decrypt_from_postgres opens.   *)
(* The class defines save_token, get_token, create_user and verify_user;   *)
(* it defines no delete_token.                                             *)
(***************************************************************************)
EnhancedMethods == {"save_token", "get_token", "create_user", "verify_user",
                    "encrypt_token", "decrypt_token", "encrypt_for_postgres",
                    "decrypt_from_postgres", "get_connection",
                    "init_database", "get_encryption_status"}

\* The value the column encrypted_token_pgp takes for the parameter
\* pg_encrypted: NULL for None, else the bytes.
pgp_column(pg_encrypted) ==
    IF pg_encrypted = NoneRec THEN NoneRec ELSE memoryview(pg_encrypted)

EnhancedUpdated(r, c, pg_encrypted) ==
    IF r.user_id = c.user_id
    THEN [user_id |-> r.user_id,
          encrypted_token |-> c.encrypted_token,
          encrypted_token_pgp |-> pgp_column(pg_encrypted),
          generation_method |-> c.generation_method,
          created_at |-> r.created_at,
          updated_at |-> c.txn_time]
    ELSE r

EnhancedUpdateRows(c, pg_encrypted) ==
    LET image == {EnhancedUpdated(r, c, pg_encrypted) : r \in DOMAIN tokens}
    IN  [n \in image |->
            SumOver({r \in DOMAIN tokens :
                        EnhancedUpdated(r, c, pg_encrypted) = n}, tokens)]

EnhancedInsertRow(c, pg_encrypted) ==
    LET n == [user_id |-> c.user_id,
              encrypted_token |-> c.encrypted_token,
              encrypted_token_pgp |-> pgp_column(pg_encrypted),
              generation_method |-> c.generation_method,
              created_at |-> c.txn_time,
              updated_at |-> c.txn_time]
    IN  [r \in DOMAIN tokens \cup {n} |->
            IF r = n
            THEN (IF n \in DOMAIN tokens THEN tokens[n] ELSE 0) + 1
            ELSE tokens[r]]

enhanced_save_token(user_id, token, generation_method, db, pg) ==
    LET c == SaveCall(user_id, token, generation_method)
        pg_encrypted == encrypt_for_postgres_result(c.encrypted_token, pg)
    IN  /\ IF db # "ok"
           THEN UNCHANGED tokens
           ELSE IF c.found
                THEN tokens' = EnhancedUpdateRows(c, pg_encrypted)
                ELSE /\ TotalRows < MaxRows
                     /\ tokens' = EnhancedInsertRow(c, pg_encrypted)
        /\ last' = [op |-> "enhanced.save_token", user_id |-> user_id,
                    token |-> token,
                    generation_method |-> generation_method,
                    db |-> db, pg |-> pg, raised |-> None,
                    ret |-> (db = "ok")]
        /\ UNCHANGED <<client, environ, users, clock, pc, call, session, token_file>>

\* get_token of the enhanced store.  decrypt_token raises inside its try,
\* and so returns None, for None and for a memoryview (neither has
\* encode); a token that is None makes get_token return None.
enhanced_get_token_result(row, db, pg) ==
    IF db # "ok" \/ row = NoneRec
    THEN NoneRec
    ELSE LET fernet_encrypted ==
                 IF row.encrypted_token_pgp # NoneRec
                 THEN decrypt_from_postgres_result(row.encrypted_token_pgp,
                                                   pg)
                 ELSE row.encrypted_token
             decrypted_token ==
                 IF fernet_encrypted = NoneRec
                 THEN None
                 ELSE decrypt_token(fernet_encrypted)
         IN  IF decrypted_token # None
             THEN [token |-> decrypted_token,
                   generation_method |-> row.generation_method,
                   created_at |-> isoformat(row.created_at),
                   updated_at |-> isoformat(row.updated_at)]
             ELSE NoneRec

enhanced_get_token(user_id, row, db, pg) ==
    /\ row \in FetchChoices(user_id)
    /\ last' = [op |-> "enhanced.get_token", user_id |-> user_id,
                row |-> row, db |-> db, pg |-> pg, raised |-> None,
                ret |-> enhanced_get_token_result(row, db, pg)]
    /\ UNCHANGED <<client, environ, users, tokens, clock, pc, call, session, token_file>>

\* token_storage.delete_token(user_id) on an EnhancedSecureTokenStorage:
\* the attribute lookup raises AttributeError before any statement runs.
enhanced_delete_token_raised(user_id) ==
    IF "delete_token" \in EnhancedMethods THEN None ELSE "AttributeError"

enhanced_delete_token(user_id) ==
    /\ last' = [op |-> "enhanced.delete_token", user_id |-> user_id,
                raised |-> enhanced_delete_token_raised(user_id)]
    /\ UNCHANGED <<client, environ, users, tokens, clock, pc, call, session, token_file>>

(***************************************************************************)
(* GET /health.  The handler has no dependency on get_current_user and     *)
(* makes no store call: credentials is whatever Authorization header the   *)
(* request carries (NoneRec for none), db the state of the database.       *)
(***************************************************************************)
health_check_response_probes_db(credentials, db) ==
    IF db # "ok"
    THEN Response(503, [detail |-> "Service Unavailable"])
    ELSE Response(200, [status |-> "healthy", timestamp |-> isoformat(clock)])

health_check_response(credentials, db) ==
    Response(200, [status |-> "healthy", timestamp |-> isoformat(clock)])

health_check(credentials, db) ==
    /\ last' = [op |-> "health_check", token |-> credentials, now |-> clock,
                db |-> db, store |-> "none",
                resp |-> health_check_response(credentials, db)]
    /\ UNCHANGED <<client, environ, users, tokens, clock, pc, call, session, token_file>>

(***************************************************************************)
(* SecureTokenClient (token_client.py).  client holds access_token and the *)
(* Authorization header of its requests.Session; ever_logged_in records    *)
(* whether a login of this client has returned True.  net is what the      *)
(* network does to one request: it reaches the server and the response     *)
(* comes back, or requests raises a RequestException.  A request that      *)
(* reaches the server runs the handler of its route.                       *)
(***************************************************************************)
InitialClient ==
    [access_token |-> NoneRec,
     authorization |-> NoneRec,
     ever_logged_in |-> FALSE]

NetOutcomes == {"ok", "exception"}

\* The header "Bearer " + token.
BearerHeader(token) == [scheme |-> "Bearer", token |-> token]

client_login_clears_on_failure(username, password, net, db) ==
    LET response == login_response(username, password, db)
        ok == net = "ok" /\ response.status = 200
    IN  /\ client' = IF ok
                     THEN [access_token |-> response.body.access_token,
                           authorization |->
                               BearerHeader(response.body.access_token),
                           ever_logged_in |-> TRUE]
                     ELSE [client EXCEPT !.access_token = NoneRec,
                                         !.authorization = NoneRec]
        /\ last' = [op |-> "client.login", username |-> username,
                    net |-> net, sent |-> TRUE, raised |-> None,
                    status |-> IF net = "ok" THEN response.status ELSE 0,
                    ret |-> ok]
        /\ UNCHANGED <<environ, users, tokens, clock, pc, call, session, token_file>>

client_login(username, password, net, db) ==
    LET response == login_response(username, password, db)
        ok == net = "ok" /\ response.status = 200
    IN  /\ client' = IF ok
                     THEN [access_token |-> response.body.access_token,
                           authorization |->
                               BearerHeader(response.body.access_token),
                           ever_logged_in |-> TRUE]
                     ELSE client
        /\ last' = [op |-> "client.login", username |-> username,
                    net |-> net, sent |-> TRUE, raised |-> None,
                    status |-> IF net = "ok" THEN response.status ELSE 0,
                    ret |-> ok]
        /\ UNCHANGED <<environ, users, tokens, clock, pc, call, session, token_file>>

\* The result of a client call that passed its check of access_token:
\* what it returns for the response, None or False for a response other
\* than 200 and for a RequestException.
ClientCall(op, user_id, net, response, on_ok, on_fail) ==
    [op |-> op, user_id |-> user_id, net |-> net, sent |-> TRUE,
     raised |-> None,
     status |-> IF net = "ok" THEN response.status ELSE 0,
     ret |-> IF net = "ok" /\ response.status = 200 THEN on_ok ELSE on_fail]

NotAuthenticated(op, user_id, net) ==
    [op |-> op, user_id |-> user_id, net |-> net, sent |-> FALSE,
     raised |-> "ValueError", status |-> 0, ret |-> NoneRec]

client_get_token_no_guard(user_id, application_name, purpose, row, db, net) ==
    /\ row \in FetchChoices(user_id)
    /\ LET bearer == IF client.authorization = NoneRec
                     THEN [kind |-> "garbage", sub |-> NoSub, exp |-> 0,
                           key |-> "forged"]
                     ELSE client.authorization.token
           response == access_token_response(bearer, user_id, row, db)
       IN  last' = ClientCall("client.get_token", user_id, net, response,
                              response.body, NoneRec)
    /\ UNCHANGED <<client, environ, users, tokens, clock, pc, call, session, token_file>>

client_get_token(user_id, application_name, purpose, row, db, net) ==
    /\ row \in FetchChoices(user_id)
    /\ IF client.access_token = NoneRec
       THEN last' = NotAuthenticated("client.get_token", user_id, net)
       ELSE LET response == access_token_response(
                               client.authorization.token, user_id, row, db)
            IN  last' = ClientCall("client.get_token", user_id, net,
                                   response, response.body, NoneRec)
    /\ UNCHANGED <<client, environ, users, tokens, clock, pc, call, session, token_file>>

client_check_token_status(user_id, row, db, net) ==
    /\ row \in FetchChoices(user_id)
    /\ IF client.access_token = NoneRec
       THEN last' = NotAuthenticated("client.check_token_status", user_id,
                                     net)
       ELSE LET response == token_status_response(
                               client.authorization.token, user_id, row, db)
            IN  last' = ClientCall("client.check_token_status", user_id,
                                   net, response, response.body, NoneRec)
    /\ UNCHANGED <<client, environ, users, tokens, clock, pc, call, session, token_file>>

client_delete_token(user_id, db, net) ==
    /\ IF client.access_token = NoneRec
       THEN /\ last' = NotAuthenticated("client.delete_token", user_id, net)
            /\ UNCHANGED tokens
       ELSE LET bearer == client.authorization.token
                response == api_delete_token_response(bearer, user_id, db)
            IN  /\ tokens' = IF net = "ok" /\ Authorized(bearer, user_id)
                             THEN delete_token_effect(user_id, db)
                             ELSE tokens
                /\ last' = [ClientCall("client.delete_token", user_id, net,
                                       response, TRUE, FALSE)
                              EXCEPT !.ret = (net = "ok"
                                              /\ response.status = 200)]
    /\ UNCHANGED <<client, environ, users, clock, pc, call, session, token_file>>

(***************************************************************************)
(* The onboarding wizard (app.py).  st.session_state is the record session; *)
(* a key the script has not set holds Absent.  Every button press or form   *)
(* submit runs its handler and then st.rerun() renders the page of the new  *)
(* current_step, so the render is part of the step.                         *)
(***************************************************************************)
InitialSession ==
    [current_step |-> "welcome",
     token_option |-> None,
     user_authenticated |-> FALSE,
     pat_token |-> None,
     user_id |-> Absent]

\* string.ascii_letters + string.digits
ascii_letters ==
    <<  "a", "b", "c", "d", "e", "f", "g", "h", "i", "j", "k", "l", "m",
        "n", "o", "p", "q", "r", "s", "t", "u", "v", "w", "x", "y", "z",
        "A", "B", "C", "D", "E", "F", "G", "H", "I", "J", "K", "L", "M",
        "N", "O", "P", "Q", "R", "S", "T", "U", "V", "W", "X", "Y", "Z" >>

digits ==
    <<  "0", "1", "2", "3", "4", "5", "6", "7", "8", "9" >>

alphabet == ascii_letters \o digits

PatTokenLength == 32

\* What the random source may give one call of generate_pat_token: for
\* each of the characters, the index secrets.choice picks in alphabet.
RandomDraws ==
    {[i \in 1..PatTokenLength |-> ((k * i) % Len(alphabet)) + 1] :
        k \in {1, 7}}

\* ''.join(parts)
RECURSIVE join(_)
join(parts) ==
    IF parts = << >> THEN "" ELSE Head(parts) \o join(Tail(parts))

\* The characters of the generator expression, in order.
pat_token_chars(draws) ==
    [i \in 1..PatTokenLength |-> alphabet[draws[i]]]

generate_pat_token_one_short(draws) ==
    join([i \in 1..(PatTokenLength - 1) |-> alphabet[draws[i]]])

generate_pat_token(draws) ==
    join(pat_token_chars(draws))

\* The JSON object save_token_to_file writes, read from session state s.
save_token_to_file(token, option, s) ==
    [token |-> token,
     generation_method |-> option,
     created_at |-> isoformat(clock),
     user_id |-> IF s.user_id = Absent THEN "unknown" ELSE s.user_id]

\* Rendering token_setup_page with token_option = 'auto': the first render
\* generates the token t and saves it.  The result is the pair of the
\* session state and the file after the render.
token_setup_render(s, f, t) ==
    IF /\ s.current_step = "token_setup"
       /\ s.token_option = "auto"
       /\ s.pat_token = None
    THEN LET s1 == [s EXCEPT !.pat_token = t]
         IN  <<s1, save_token_to_file(t, "auto", s1)>>
    ELSE <<s, f>>

welcome_page(option) ==
    /\ session.current_step = "welcome"
    /\ session' = [session EXCEPT !.token_option = option,
                                  !.current_step = "login"]
    /\ UNCHANGED <<client, environ, users, tokens, clock, pc, call, last, token_file>>

login_page_without_flag(username, password, t) ==
    /\ session.current_step = "login"
    /\ IF username # "" /\ password # ""
       THEN LET s1 == [session EXCEPT !.user_id = username,
                                      !.current_step = "token_setup"]
                r == token_setup_render(s1, token_file, t)
            IN  /\ session' = r[1]
                /\ token_file' = r[2]
       ELSE UNCHANGED <<session, token_file>>
    /\ UNCHANGED <<client, environ, users, tokens, clock, pc, call, last>>

login_page(username, password, t) ==
    /\ session.current_step = "login"
    /\ IF username # "" /\ password # ""
       THEN LET s1 == [session EXCEPT !.user_authenticated = TRUE,
                                      !.user_id = username,
                                      !.current_step = "token_setup"]
                r == token_setup_render(s1, token_file, t)
            IN  /\ session' = r[1]
                /\ token_file' = r[2]
       ELSE UNCHANGED <<session, token_file>>
    /\ UNCHANGED <<client, environ, users, tokens, clock, pc, call, last>>

go_back(t) ==
    /\ session.current_step \in {"login", "token_setup", "dashboard"}
    /\ LET s1 == IF session.current_step = "login"
                 THEN [session EXCEPT !.current_step = "welcome",
                                      !.token_option = None]
                 ELSE IF session.current_step = "token_setup"
                 THEN [session EXCEPT !.current_step = "login",
                                      !.user_authenticated = FALSE,
                                      !.user_id = None]
                 ELSE [session EXCEPT !.current_step = "token_setup"]
           r == token_setup_render(s1, token_file, t)
       IN  /\ session' = r[1]
           /\ token_file' = r[2]
    /\ UNCHANGED <<client, environ, users, tokens, clock, pc, call, last>>

\* token_setup_page, manual entry: the form "token_form" is submitted.
token_setup_page_save(token_input) ==
    /\ session.current_step = "token_setup"
    /\ session.token_option = "manual"
    /\ IF token_input # ""
       THEN /\ session' = [session EXCEPT !.pat_token = token_input]
            /\ token_file' = save_token_to_file(token_input, "manual",
                                                session)
       ELSE UNCHANGED <<session, token_file>>
    /\ UNCHANGED <<client, environ, users, tokens, clock, pc, call, last>>

\* token_setup_page, generated token: "Continue to Dashboard" is pressed.
\* (With manual entry the button is created only in the run in which the
\* form was submitted, so the run its press triggers never sees it.)
token_setup_page_continue ==
    /\ session.current_step = "token_setup"
    /\ session.token_option = "auto"
    /\ session' = [session EXCEPT !.current_step = "dashboard"]
    /\ UNCHANGED <<client, environ, users, tokens, clock, pc, call, last, token_file>>

\* dashboard_page, "Reset Onboarding": every key is deleted and the rerun
\* initialises the session again.
dashboard_page_reset ==
    /\ session.current_step = "dashboard"
    /\ session' = InitialSession
    /\ UNCHANGED <<client, environ, users, tokens, clock, pc, call, last, token_file>>

Tick ==
    /\ clock + HoursPerTick <= MaxTicks * HoursPerTick
    /\ clock' = clock + HoursPerTick
    /\ UNCHANGED <<client, environ, users, tokens, pc, call, last, session, token_file>>

Init ==
    /\ users = << >>
    /\ tokens = << >>
    /\ clock = 0
    /\ pc = [p \in Procs |-> "idle"]
    /\ call = [p \in Procs |-> NoCall]
    /\ last = NoLast
    /\ session = InitialSession
    /\ token_file = NoneRec
    /\ environ = ConfiguredEnviron
    /\ client = InitialClient

\* The API server process after its start: api_server.py has read
\* JWT_SECRET from an environment that sets it or does not.
InitServer ==
    /\ users = << >>
    /\ tokens = << >>
    /\ clock = 0
    /\ pc = [p \in Procs |-> "idle"]
    /\ call = [p \in Procs |-> NoCall]
    /\ last = NoLast
    /\ session = InitialSession
    /\ token_file = NoneRec
    /\ environ \in Environs
    /\ client = InitialClient

(***************************************************************************)
(* The bearer credentials a caller may present: every payload signed with  *)
(* the server's secret, a JWT signed with another key, and a string that   *)
(* is no JWT.                                                              *)
(***************************************************************************)
ExpTimes == {t + JWT_EXPIRY_HOURS : t \in Times}

Bearers ==
    {[kind |-> "jwt", sub |-> s, exp |-> e, key |-> JWT_SECRET] :
        s \in Users \cup {NoSub}, e \in ExpTimes}
    \cup {[kind |-> "jwt", sub |-> "alice", exp |-> e, key |-> "forged"] :
        e \in ExpTimes}
    \cup {[kind |-> "garbage", sub |-> NoSub, exp |-> 0, key |-> "forged"]}

NextStore ==
    \/ \E p \in Procs, u \in Users, pay \in Payloads, conn \in BOOLEAN :
          save_token_select(p, u, pay[1], pay[2], conn)
    \/ \E p \in Procs, dberr \in BOOLEAN : save_token_write(p, dberr)
    \/ \E u \in Users, db \in DbOutcomes :
          \E row \in FetchChoices(u) : get_token(u, row, db)
    \/ \E u \in Users, db \in DbOutcomes : delete_token(u, db)
    \/ \E db \in DbOutcomes : encrypt_for_postgres(encrypt_token("tokA"), db)
    \/ \E db \in DbOutcomes :
          \E data \in {encrypt_token("tokA"),
                       encrypt_for_postgres_result(encrypt_token("tokA"),
                                                   "ok")} :
             decrypt_from_postgres(data, db)

\* A handler that refuses the request before its store call is not
\* affected by the database.
StoreInputs(token, user_id) ==
    IF Authorized(token, user_id) THEN DbOutcomes ELSE {"ok"}

Next ==
    \/ \E u \in Users, pay \in Payloads, db \in DbOutcomes :
          save_token(u, pay[1], pay[2], db)
    \/ \E u \in Users : save_token_generated_key(u, "tokA", "auto")
    \/ \E t \in Bearers, u \in Users, a \in Applications, pu \in Purposes :
          \E db \in StoreInputs(t, u), row \in FetchChoices(u) :
             access_token(t, u, a, pu, row, db)
    \/ \E t \in Bearers, u \in Users :
          \E db \in StoreInputs(t, u), row \in FetchChoices(u) :
             token_status(t, u, row, db)
    \/ \E t \in Bearers, u \in Users :
          \E db \in StoreInputs(t, u) : api_delete_token(t, u, db)
    \/ Tick

\* The credentials presented to the running server: those login issues
\* (create_jwt_token for a user at a time of the clock), and one that a
\* party holding only the source text can sign.
ServerBearers ==
    {create_jwt_token(u, t, JWT_EXPIRY_HOURS) : u \in Users, t \in Times}
    \cup {[kind |-> "jwt", sub |-> "alice", exp |-> JWT_EXPIRY_HOURS,
           key |-> DefaultJwtSecret]}

NextServer ==
    \/ \E u \in Users, db \in DbOutcomes :
          create_user(u, hash_password("pw1"), db)
    \/ \E u \in Users, pw \in Passwords, db \in {"ok", "noconn"} :
          login(u, pw, db)
    \/ \E u \in Users : save_token(u, "tokA", "auto", "ok")
    \/ \E t \in ServerBearers, u \in Users :
          \E db \in StoreInputs(t, u), row \in FetchChoices(u) :
             token_status(t, u, row, db)
    \/ \E t \in ServerBearers, u \in Users :
          \E db \in StoreInputs(t, u) : api_delete_token(t, u, db)
    \/ \E c \in ServerBearers \cup {NoneRec}, db \in DbOutcomes :
          health_check(c, db)
    \/ Tick

NextEnhanced ==
    \/ \E u \in Users, pay \in Payloads, db \in DbOutcomes, pg \in DbOutcomes :
          enhanced_save_token(u, pay[1], pay[2], db, pg)
    \/ \E u \in Users, db \in DbOutcomes, pg \in DbOutcomes :
          \E row \in FetchChoices(u) : enhanced_get_token(u, row, db, pg)
    \/ \E u \in Users : enhanced_delete_token(u)
    \/ \E u \in Users, db \in DbOutcomes : delete_token(u, db)

NextClient ==
    \/ \E u \in Users : create_user(u, hash_password("pw1"), "ok")
    \/ \E u \in Users : save_token(u, "tokA", "auto", "ok")
    \/ \E u \in Users, pw \in Passwords, net \in NetOutcomes :
          \E db \in {"ok", "noconn"} : client_login(u, pw, net, db)
    \/ \E u \in Users, a \in Applications, pu \in Purposes :
          \E net \in NetOutcomes, row \in FetchChoices(u) :
             client_get_token(u, a, pu, row, "ok", net)
    \/ \E u \in Users, net \in NetOutcomes :
          \E row \in FetchChoices(u) :
             client_check_token_status(u, row, "ok", net)
    \/ \E u \in Users, net \in NetOutcomes : client_delete_token(u, "ok", net)
    \/ Tick

NextAuth ==
    \/ \E u \in Users, pw \in Passwords, db \in DbOutcomes :
          create_user(u, hash_password(pw), db)
    \/ \E u \in Users, pw \in Passwords, db \in DbOutcomes : login(u, pw, db)
    \/ Tick

NextApp ==
    \/ \E u \in Users, pw \in Passwords, db \in DbOutcomes :
          create_user(u, hash_password(pw), db)
    \/ \E option \in Methods : welcome_page(option)
    \/ \E username \in Users \cup {""}, password \in Passwords \cup {""},
          draws \in RandomDraws :
          login_page(username, password, generate_pat_token(draws))
    \/ \E draws \in RandomDraws : go_back(generate_pat_token(draws))
    \/ \E token_input \in Tokens \cup {""} : token_setup_page_save(token_input)
    \/ token_setup_page_continue
    \/ dashboard_page_reset

(***************************************************************************)
(* The claims.                                                             *)
(***************************************************************************)
ProtectedOps == {"access_token", "token_status", "api_delete_token"}

\* C1: a caller with a valid session for subject A that names another user
\* B as target gets 403 Forbidden from access_token, token_status and
\* delete_token; the response holds nothing but the error detail, which is
\* none of B's token or metadata, whatever the store holds.
C1_OtherUserForbidden ==
    (/\ last.op \in ProtectedOps
     /\ get_current_user(last.token, last.now).kind = "ok"
     /\ get_current_user(last.token, last.now).sub # last.user_id)
    => /\ last.resp.status = 403
       /\ DOMAIN last.resp.body = {"detail"}
       /\ last.resp.body.detail \notin Tokens \cup Methods

C1_Witness ==
    /\ last.op = "access_token"
    /\ get_current_user(last.token, last.now).kind = "ok"
    /\ get_current_user(last.token, last.now).sub = "alice"
    /\ last.user_id = "bob"
    /\ RowsOf("bob") # {}
    /\ last.resp.status = 403

\* C2: the tokens table holds at most one row per user_id in every
\* reachable state, whatever the interleaving of save_token and
\* delete_token calls.
C2_AtMostOneRowPerUser ==
    \A u \in Users : CountRows(u) <= 1

\* C3: when two save_token calls for one user with different payloads run
\* at the same time and both return True, the user is left with exactly one
\* row, and its token and generation_method are those of one of the calls.
C3_ConcurrentSavesOneWinner ==
    [][\A q \in Procs :
        (/\ pc[q] = "selected" /\ pc'[q] = "idle"
         /\ last'.op = "save_token" /\ last'.ret
         /\ last.op = "save_token" /\ last.ret
         /\ q \in last.peers /\ last'.user_id = last.user_id
         /\ <<last.token, last.generation_method>>
               # <<last'.token, last'.generation_method>>)
        => /\ CountRows(last.user_id)' = 1
           /\ \A r \in RowsOf(last.user_id)' :
                <<decrypt_token(r.encrypted_token), r.generation_method>>
                   \in {<<last.token, last.generation_method>>,
                        <<last'.token, last'.generation_method>>}]_vars

\* C4: after save_token(user_id, token, method) returned True, with no
\* other save_token or delete_token for the user in between, get_token of
\* the same storage instance returns a record whose token is the plaintext
\* saved and whose generation_method is method.
C4_SaveThenGetRoundTrip ==
    [][(/\ last.op = "save_token" /\ last.ret
        /\ last'.op = "get_token"
        /\ last'.user_id = last.user_id)
       => /\ last'.ret # NoneRec
          /\ last'.ret.token = last.token
          /\ last'.ret.generation_method = last.generation_method]_vars

\* C5: two successful save_token calls for one user, one after the other,
\* leave exactly one row for the user: it holds the token and
\* generation_method of the second call, its created_at is that of the
\* first call's row, and its updated_at is not before its created_at.
C5_SecondSaveUpdatesInPlace ==
    [][\A q \in Procs :
        (/\ pc[q] = "selected" /\ pc'[q] = "idle"
         /\ last'.op = "save_token" /\ last'.ret
         /\ last.op = "save_token" /\ last.ret
         /\ last.user_id = last'.user_id
         /\ last.peers = {} /\ last'.peers = {}
         /\ \A r \in Procs \ {q} : pc[r] = "idle")
        => /\ CountRows(last.user_id)' = 1
           /\ \A n \in RowsOf(last.user_id)' :
                /\ decrypt_token(n.encrypted_token) = last'.token
                /\ n.generation_method = last'.generation_method
                /\ \E o \in RowsOf(last.user_id) :
                      o.created_at = n.created_at
                /\ n.updated_at >= n.created_at]_vars

\* C6: the response of token_status never holds the token, in plaintext or
\* encrypted: a 200 response has no fields other than has_token,
\* generation_method, created_at and updated_at, each of its own type, and
\* an error response holds only its detail.
C6_StatusHidesToken ==
    last.op = "token_status"
    => LET b == last.resp.body
       IN  IF last.resp.status = 200
           THEN /\ DOMAIN b \subseteq {"has_token", "generation_method",
                                       "created_at", "updated_at"}
                /\ b.has_token \in BOOLEAN
                /\ b.has_token =>
                     /\ b.generation_method \in Methods
                     /\ b.created_at \in {isoformat(t) : t \in Times}
                     /\ b.updated_at \in {isoformat(t) : t \in Times}
           ELSE /\ DOMAIN b = {"detail"}
                /\ b.detail \notin Tokens

C6_Witness ==
    /\ last.op = "token_status"
    /\ last.resp.status = 200
    /\ last.resp.body.has_token
    /\ last.resp.body.generation_method = "manual"
    /\ \E r \in RowsOf(last.user_id) : decrypt_token(r.encrypted_token) = "tokB"

\* C7: a credential with a valid signature whose expiry time is in the past
\* is answered 401 "Token has expired" by every protected operation, and
\* the operation is not carried out: the store is neither read nor changed.
C7_ExpiredRejected ==
    [][(/\ last' # last
        /\ last'.op \in ProtectedOps
        /\ last'.token.kind = "jwt"
        /\ last'.token.key = JWT_SECRET
        /\ last'.token.exp < last'.now)
       => /\ last'.resp = Response(401, [detail |-> "Token has expired"])
          /\ last'.store = "none"
          /\ tokens' = tokens]_vars

C7_Witness ==
    /\ last.op = "api_delete_token"
    /\ last.token.kind = "jwt"
    /\ last.token.key = JWT_SECRET
    /\ last.token.exp < last.now
    /\ last.token.sub = last.user_id
    /\ RowsOf(last.user_id) # {}
    /\ last.resp.status = 401

\* C8: a credential that is not expired but is signed with another key, or
\* is no JWT at all, is answered 401 "Invalid token" by every protected
\* operation, and never anything else.
C8_InvalidTokenIs401 ==
    (/\ last.op \in ProtectedOps
     /\ \/ last.token.kind # "jwt"
        \/ /\ last.token.key # JWT_SECRET
           /\ last.token.exp > last.now)
    => last.resp = Response(401, [detail |-> "Invalid token"])

\* C9: a failed login is answered the same way, 401 "Invalid username or
\* password", whether the username is not registered or the password is
\* wrong: the answer does not tell the two apart.
C9_LoginFailureUniform ==
    /\ (last.op = "login" /\ last.resp.status # 200)
       => last.resp
             = Response(401, [detail |-> "Invalid username or password"])
    /\ \A u \in DOMAIN users, v \in Users \ DOMAIN users,
          p \in Passwords, q \in Passwords,
          d \in DbOutcomes, e \in DbOutcomes :
          login_response(u, p, d).status # 200
          => login_response(u, p, d) = login_response(v, q, e)

C9_Witness ==
    /\ last.op = "login"
    /\ last.resp.status = 401
    /\ last.username \in DOMAIN users
    /\ users[last.username] # hash_password(last.password)
    /\ Users \ DOMAIN users # {}

\* C10: login returns a session credential exactly when the users table
\* holds the username with the hash of the password given; the credential
\* names that username as subject, expires 24 hours after the login
\* (expires_in = 86400), and verifies to the username at every time before
\* its expiry.
C10_LoginIffRegistered ==
    last.op = "login"
    => /\ last.resp.status = 200
            <=> /\ last.username \in DOMAIN users
                /\ users[last.username] = hash_password(last.password)
       /\ last.resp.status = 200
            => LET t == last.resp.body.access_token
               IN  /\ t.sub = last.username
                   /\ t.exp = last.now + 24
                   /\ last.resp.body.expires_in = 86400
                   /\ \A now \in Times :
                        now < t.exp
                        => get_current_user(t, now)
                              = [kind |-> "ok", sub |-> last.username]

\* C11: when the verified subject of a request differs from the target
\* user_id, the handler does not reach its store call (the store is not
\* read and the tables are unchanged), and the response is the same 403
\* whatever row the store holds for the target and whatever the database
\* would have answered.
C11_ForbiddenBeforeStore ==
    [][\A t \in Bearers, u \in Users :
        (/\ last' # last
         /\ last'.op \in ProtectedOps
         /\ last'.token = t /\ last'.user_id = u
         /\ get_current_user(t, clock).kind = "ok"
         /\ get_current_user(t, clock).sub # u)
        => /\ last'.store = "none"
           /\ tokens' = tokens /\ users' = users
           /\ last'.resp
                = Response(403, [detail |->
                     IF last'.op = "access_token"
                     THEN "Access denied to this token"
                     ELSE "Access denied"])
           /\ \A row \in DOMAIN tokens \cup {NoneRec}, db \in DbOutcomes :
                 /\ last'.op = "access_token"
                    => access_token_response(t, u, row, db) = last'.resp
                 /\ last'.op = "token_status"
                    => token_status_response(t, u, row, db) = last'.resp
                 /\ last'.op = "api_delete_token"
                    => api_delete_token_response(t, u, db) = last'.resp]_vars

C11_Witness ==
    /\ last.op = "token_status"
    /\ get_current_user(last.token, last.now).kind = "ok"
    /\ get_current_user(last.token, last.now).sub = "alice"
    /\ last.user_id = "bob"
    /\ RowsOf("bob") = {}
    /\ RowsOf("alice") # {}
    /\ last.resp.status = 403

\* C12: deleting the token of a user who has no row reports not found:
\* the store's delete_token returns False and the API answers 404 (no
\* exception, so no 500); the tokens table is unchanged, and the same
\* delete repeated in the resulting state gets the same answer.
C12_DeleteMissingIsNotFound ==
    [][\A t \in Bearers, u \in Users :
        (/\ last' # last
         /\ last'.op = "api_delete_token"
         /\ last'.token = t /\ last'.user_id = u
         /\ last'.store = "write"
         /\ CountRows(u) = 0)
        => /\ last'.resp = Response(404, [detail |-> "Token not found"])
           /\ tokens' = tokens
           /\ \A db \in DbOutcomes :
                 /\ ~delete_token_result(u, db)
                 /\ delete_token_effect(u, db) = tokens
                 /\ (~delete_token_result(u, db))'
                 /\ api_delete_token_response(t, u, db)' = last'.resp]_vars

C12_Witness ==
    /\ last.op = "api_delete_token"
    /\ last.store = "write"
    /\ last.db = "ok"
    /\ last.resp.status = 404
    /\ RowsOf(last.user_id) = {}
    /\ tokens # << >>

\* C13: delete_token returns True exactly when the user had a row and the
\* call removed every row of the user.  While a user has no row, get_token
\* reports no record and token_status reports has_token = false, and a
\* user without a row gets one only by a save_token that returns True.
C13_DeleteRemovesRecord ==
    [][/\ \A u \in Users :
            (/\ last'.op = "delete_token"
             /\ last'.user_id = u
             /\ last' # last \/ tokens' # tokens)
            => (last'.ret <=> (CountRows(u) > 0 /\ RowsOf(u)' = {}))
       /\ \A u \in Users :
            RowsOf(u)' = {}
            => /\ FetchChoices(u)' = {NoneRec}
               /\ \A db \in DbOutcomes :
                    /\ get_token_result(NoneRec, db) = NoneRec
                    /\ token_status_response(
                          create_jwt_token(u, clock, 0), u, NoneRec, db)
                          = Response(200, [has_token |-> FALSE])
       /\ \A u \in Users :
            (RowsOf(u) = {} /\ RowsOf(u)' # {})
            => /\ last'.op = "save_token"
               /\ last'.ret
               /\ last'.user_id = u]_vars

C13_Witness ==
    /\ last.op = "delete_token"
    /\ last.ret
    /\ RowsOf(last.user_id) = {}
    /\ \E p \in Procs : /\ pc[p] = "selected"
                        /\ call[p].user_id = last.user_id
                        /\ call[p].found

\* C14: when a row exists whose ciphertext does not decrypt, get_token
\* gives a corrupted-record error: its result is neither "no record" nor a
\* record whose token is None; and access_token answers neither 404 nor
\* 200.
C14_DecryptFailureIsDistinctError ==
    /\ \A u \in Users : \A row \in RowsOf(u) :
          decrypt_token(row.encrypted_token) = None
          => LET r == get_token_result(row, "ok")
             IN  /\ r # NoneRec
                 /\ r.token # None
    /\ (/\ last.op = "access_token"
        /\ last.store = "read"
        /\ last.db = "ok"
        /\ RowsOf(last.user_id) # {}
        /\ \A row \in RowsOf(last.user_id) :
              decrypt_token(row.encrypted_token) = None)
       => last.resp.status \notin {200, 404}

\* C15: when the database connection cannot be established, an operation
\* answers with an infrastructure error (5xx), not with a business
\* outcome: access_token and delete_token do not answer 404 and
\* token_status does not answer has_token = false.
C15_ConnectionFailureIsInfrastructureError ==
    /\ (/\ last.op \in ProtectedOps
        /\ last.store # "none"
        /\ last.db = "noconn")
       => last.resp.status >= 500

\* C16: every access_token call that returns a token has printed, before
\* building its response, a record naming the caller (who is the target),
\* the application name and purpose of the request, and the access time.
C16_AccessIsAudited ==
    (/\ last.op = "access_token"
     /\ last.resp.status = 200)
    => /\ Len(last.stdout) = 3
       /\ last.stdout[1] = <<"Token accessed by", last.user_id,
                             "for application:", last.application_name>>
       /\ last.stdout[2] = <<"Purpose:", last.purpose>>
       /\ last.stdout[3] = <<"Access time:", isoformat(last.now)>>
       /\ get_current_user(last.token, last.now).sub = last.user_id

C16_Witness ==
    /\ last.op = "access_token"
    /\ last.resp.status = 200
    /\ last.resp.body.token = "tokB"
    /\ last.application_name = "app2"
    /\ last.user_id = "bob"

\* C17: nothing the program persists holds a token in plaintext: every
\* ciphertext in the tokens table is an output of encrypt_token, and the
\* file the onboarding wizard writes does not hold the token.
C17_NoPlaintextPersisted ==
    /\ \A r \in DOMAIN tokens :
          r.encrypted_token \in {encrypt_token(t) : t \in Tokens}
    /\ token_file # NoneRec
       => token_file.token
             \notin Tokens \cup {generate_pat_token(d) : d \in RandomDraws}

\* C18: a token is stored under user id U only for a caller authenticated
\* as U against the users table: whenever the wizard writes its token
\* file, the user_id it writes is a registered username.
C18_StoredOnlyForAuthenticatedSubject ==
    [][token_file' # token_file
       => token_file'.user_id \in DOMAIN users]_vars

\* C19: for the owner, token_status answers has_token = true exactly when
\* the store holds a row for the user, with the generation_method,
\* created_at and updated_at of that row, and has_token = false exactly
\* when it holds none.
C19_StatusReflectsStore ==
    (/\ last.op = "token_status"
     /\ last.store = "read")
    => /\ last.resp.status = 200
       /\ last.resp.body.has_token <=> RowsOf(last.user_id) # {}
       /\ last.resp.body.has_token
          => \E r \in RowsOf(last.user_id) :
                /\ last.resp.body.generation_method = r.generation_method
                /\ last.resp.body.created_at = isoformat(r.created_at)
                /\ last.resp.body.updated_at = isoformat(r.updated_at)

\* C20: for the owner, access_token answers 404 when the store holds no
\* row for the user, and otherwise 200 with the plaintext of the token
\* most recently saved for the user, its generation_method and created_at.
C20_AccessReturnsCurrentToken ==
    (/\ last.op = "access_token"
     /\ last.store = "read")
    => IF RowsOf(last.user_id) = {}
       THEN last.resp
               = Response(404, [detail |-> "Token not found for this user"])
       ELSE /\ last.resp.status = 200
            /\ \E r \in RowsOf(last.user_id) :
                  /\ last.resp.body.token = r.encrypted_token.pt
                  /\ last.resp.body.generation_method = r.generation_method
                  /\ last.resp.body.created_at = isoformat(r.created_at)

\* C21: every operation of the store has released every connection it
\* acquired when it returns, on every exit path: the number of connections
\* it opened that are still open is zero.
C21_ConnectionsReleased ==
    last.op \in {"save_token", "get_token", "delete_token", "create_user",
                 "encrypt_for_postgres", "decrypt_from_postgres"}
    => last.open_conns = 0

\* C22: a protected operation that cannot resolve the caller's identity
\* (the credential is invalid, expired or has no subject) answers 401 and
\* has neither read nor written the store.
C22_IdentityResolvedFirst ==
    (/\ last.op \in ProtectedOps
     /\ get_current_user(last.token, last.now).kind # "ok")
    => /\ last.resp.status = 401
       /\ last.store = "none"

\* C23: whenever the server has signed or verified a credential, its
\* signing secret is not the fallback written in the source, and a
\* credential signed with that fallback is not accepted.
C23_NoDefaultSigningSecret ==
    /\ (\/ last.op \in ProtectedOps
        \/ last.op = "login" /\ last.resp.status = 200)
       => JWT_SECRET # DefaultJwtSecret
    /\ (/\ last.op \in ProtectedOps
        /\ last.token.key = DefaultJwtSecret)
       => get_current_user(last.token, last.now).kind # "ok"

\* C24: the health operation answers 200 with exactly status and timestamp
\* whatever credential the request carries (none included) and whatever
\* the state of the database, and it neither reads nor writes the store.
C24_HealthNeedsNothing ==
    [][(last'.op = "health_check" /\ last' # last)
       => /\ last'.resp.status = 200
          /\ DOMAIN last'.resp.body = {"status", "timestamp"}
          /\ last'.resp.body.status = "healthy"
          /\ last'.resp.body.timestamp = isoformat(clock)
          /\ last'.store = "none"
          /\ tokens' = tokens
          /\ users' = users]_vars

C24_Witness ==
    /\ last.op = "health_check"
    /\ last.token = NoneRec
    /\ last.db = "noconn"
    /\ last.resp.status = 200
    /\ tokens # << >>

C26_OtherUsersUntouched ==
    [][\A y \in Users :
          [r \in RowsOf(y)' |-> tokens'[r]] # [r \in RowsOf(y) |-> tokens[r]]
          => \/ \E q \in Procs : /\ pc[q] = "selected"
                                 /\ pc'[q] = "idle"
                                 /\ call[q].user_id = y
             \/ /\ pc' = pc
                /\ last'.op = "delete_token"
                /\ last'.user_id = y]_vars

C26_Witness ==
    /\ last.op = "save_token"
    /\ last.branch = "update"
    /\ last.user_id = "alice"
    /\ \E r \in RowsOf("alice") : r.updated_at = clock
    /\ RowsOf("bob") # {}
    /\ \A r \in RowsOf("bob") : decrypt_token(r.encrypted_token) # last.token
    /\ \E q \in Procs : pc[q] = "selected" /\ call[q].user_id = "bob"

\* C27: a save_token call that fails returns False, and no step of it has
\* changed the tokens table: not its SELECT (so a call abandoned before its
\* write leaves nothing), not its failed write.  Every row other
\* operations can see holds the ciphertext, generation_method and time of
\* one whole call.
C27_FailedSaveLeavesTable ==
    [][/\ \A q \in Procs :
            (pc[q] = "idle" /\ pc'[q] = "selected") => tokens' = tokens
       /\ \A q \in Procs :
            (/\ pc[q] = "selected"
             /\ pc'[q] = "idle"
             /\ last'.branch \in {"error", "noconn"} \/ ~last'.ret)
            => /\ ~last'.ret
               /\ tokens' = tokens
       /\ (pc' = pc /\ last' # last /\ last'.op = "save_token")
          => /\ ~last'.ret
             /\ tokens' = tokens
       /\ \A r \in DOMAIN tokens' :
            /\ <<decrypt_token(r.encrypted_token), r.generation_method>>
                  \in Payloads
            /\ r.created_at <= r.updated_at]_vars

C27_Witness ==
    /\ last.op = "save_token"
    /\ last.branch = "error"
    /\ ~last.ret
    /\ RowsOf(last.user_id) # {}
    /\ \A r \in RowsOf(last.user_id) :
          decrypt_token(r.encrypted_token) # last.token

\* C28: create_user for a username that exists returns False and leaves
\* the users table as it is, and of the create_user calls for one username
\* exactly one returns True: the call returns True exactly when the
\* username was not registered before it, and the username is registered
\* with the call's hash after it.
C28_ExactlyOneCreateSucceeds ==
    [][(last'.op = "create_user" /\ last' # last)
       => /\ last'.username \in DOMAIN users
             => (~last'.ret /\ users' = users)
          /\ last'.ret <=> last'.username \notin DOMAIN users
          /\ last'.ret => last'.username \in DOMAIN users']_vars

\* C29: the users table changes only by a create_user that returns True,
\* and such a step adds one user: no row of the table is ever modified or
\* deleted, in particular not by the deletion of the user's token.
C29_OnlyCreateUserChangesUsers ==
    [][/\ users' # users => (last'.op = "create_user" /\ last'.ret)
       /\ \A u \in DOMAIN users :
            u \in DOMAIN users' /\ users'[u] = users[u]]_vars

C29_Witness ==
    /\ last.op = "api_delete_token"
    /\ last.resp.status = 200
    /\ last.user_id \in DOMAIN users
    /\ users[last.user_id] = hash_password("pw1")
    /\ RowsOf(last.user_id) = {}

\* C30: in every state of the store, a credential issued for a user at
\* time t is accepted as that user at every hour from t up to, not
\* including, t + 24; no protected operation answers 401 to an issued
\* credential before its expiry.
C30_SessionNotRevocable ==
    /\ \A u \in Users, t \in Times :
          \A now \in t..(t + 23) :
             get_current_user(create_jwt_token(u, t, JWT_EXPIRY_HOURS), now)
                = [kind |-> "ok", sub |-> u]
    /\ (/\ last.op \in ProtectedOps
        /\ \E u \in Users, t \in Times :
              last.token = create_jwt_token(u, t, JWT_EXPIRY_HOURS)
        /\ last.now < last.token.exp)
       => last.resp.status # 401

C30_Witness ==
    /\ last.op = "api_delete_token"
    /\ last.resp.status = 200
    /\ last.token = create_jwt_token(last.user_id, 0, JWT_EXPIRY_HOURS)
    /\ tokens = << >>
    /\ clock < last.token.exp
    /\ get_current_user(last.token, clock).kind = "ok"


\* C31: after a save_token that returned True on any SecureTokenStorage
\* instance over the database, get_token of the serving instance returns,
\* for every row of that user, the plaintext that was saved.
C31_AnyInstanceReadsSavedToken ==
    (last.op = "save_token" /\ last.ret)
    => \A r \in RowsOf(last.user_id) :
          get_token_result(r, "ok").token = last.token

\* C32: a save_token(X, t, m) that runs against delete_token(X), with no
\* other save for X in flight and at most one row for X, ends as in one of
\* the two sequential orders.  When it returns True, X has either no row
\* or exactly one row holding (t, m), and X has no row only when the rows
\* its SELECT found were deleted before its write (the delete is then
\* ordered after the save).  The delete returns True exactly when it
\* removed rows that existed, and afterwards X has no row; when it returns
\* False the table is as before.
C32_SaveDeleteSerializable ==
    [][/\ \A q \in Procs : \A x \in Users :
            (/\ pc[q] = "selected"
             /\ pc'[q] = "idle"
             /\ call[q].user_id = x
             /\ last'.ret
             /\ last'.peers = {}
             /\ CountRows(x) <= 1
             /\ call[q].found \/ RowsOf(x) = {})
            => /\ \/ RowsOf(x)' = {}
                  \/ /\ CountRows(x)' = 1
                     /\ \A r \in RowsOf(x)' :
                          /\ decrypt_token(r.encrypted_token) = call[q].token
                          /\ r.generation_method = call[q].generation_method
               /\ RowsOf(x)' = {} => (call[q].found /\ RowsOf(x) = {})
       /\ \A x \in Users :
            (/\ pc' = pc
             /\ last'.op = "delete_token"
             /\ last'.user_id = x
             /\ last' # last \/ tokens' # tokens)
            => /\ last'.ret => (CountRows(x) > 0 /\ RowsOf(x)' = {})
               /\ ~last'.ret => tokens' = tokens
               /\ (CountRows(x) > 0 /\ tokens' # tokens) => last'.ret]_vars

C32_Witness ==
    /\ last.op = "save_token"
    /\ last.ret
    /\ last.branch = "update"
    /\ last.peers = {}
    /\ RowsOf(last.user_id) = {}

\* C33: every call on the enhanced store returns what the base store
\* returns for the same call on the same table: delete_token returns a
\* boolean and raises nothing, get_token returns the result of the base
\* get_token for the fetched row, and save_token returns True exactly when
\* the database worked.
C33_EnhancedReturnsBaseResults ==
    /\ last.op = "enhanced.delete_token" => last.raised = None
    /\ last.op = "enhanced.get_token"
       => last.ret = get_token_result(last.row, last.db)
    /\ last.op = "enhanced.save_token" => last.ret = (last.db = "ok")

\* C34: get_token of the enhanced store returns the saved token for every
\* row a save_token that returned True has written, whatever happened to
\* the second-layer encryption of the save and whatever happens to the
\* second-layer decryption of the get.
C34_EnhancedRoundTrip ==
    (/\ last.op = "enhanced.get_token"
     /\ last.db = "ok"
     /\ last.row # NoneRec)
    => /\ last.ret # NoneRec
       /\ last.ret.token = last.row.encrypted_token.pt

\* C35: on a client no login of which has returned True, get_token,
\* check_token_status and delete_token raise ValueError and send no
\* request: the store and the client are as before.
C35_UnauthenticatedRaises ==
    [][(/\ ~client.ever_logged_in
        /\ last' # last
        /\ last'.op \in {"client.get_token", "client.check_token_status",
                         "client.delete_token"})
       => /\ last'.raised = "ValueError"
          /\ ~last'.sent
          /\ tokens' = tokens
          /\ client' = client]_vars

C35_Witness ==
    /\ last.op = "client.delete_token"
    /\ last.raised = "ValueError"
    /\ ~last.sent
    /\ ~client.ever_logged_in
    /\ last.user_id \in DOMAIN users
    /\ RowsOf(last.user_id) # {}

\* C36: access_token and the Authorization header change only in a login
\* that got status 200 and returns True; a login that got another status
\* or an exception returns False and leaves both as they were; and
\* whenever access_token is set the header is "Bearer " and that token.
C36_OnlySuccessfulLoginSetsToken ==
    [][/\ (\/ client'.access_token # client.access_token
           \/ client'.authorization # client.authorization)
          => /\ last'.op = "client.login"
             /\ last'.ret
             /\ last'.status = 200
       /\ (last'.op = "client.login" /\ last'.status # 200) => ~last'.ret
       /\ (last'.op = "client.login" /\ ~last'.ret) => client' = client
       /\ client'.access_token # NoneRec
          => client'.authorization = BearerHeader(client'.access_token)]_vars

C36_Witness ==
    /\ last.op = "client.login"
    /\ ~last.ret
    /\ last.username = "bob"
    /\ client.access_token # NoneRec
    /\ client.access_token.sub = "alice"
    /\ client.authorization = BearerHeader(client.access_token)

\* C37: in every state of the wizard, before and after every step,
\* current_step is welcome, login, token_setup or dashboard; on
\* token_setup and dashboard user_authenticated is true; off welcome
\* token_option is 'auto' or 'manual'; and a step that enters dashboard
\* starts on token_setup.
C37_WizardInvariants ==
    [][/\ \A s \in {session, session'} :
            /\ s.current_step
                  \in {"welcome", "login", "token_setup", "dashboard"}
            /\ s.current_step \in {"token_setup", "dashboard"}
               => s.user_authenticated = TRUE
            /\ s.current_step # "welcome"
               => s.token_option \in {"auto", "manual"}
       /\ (/\ session'.current_step = "dashboard"
           /\ session.current_step # "dashboard")
          => session.current_step = "token_setup"]_vars

C37_Witness ==
    /\ session.current_step = "token_setup"
    /\ session.user_authenticated
    /\ session.token_option = "auto"
    /\ session.user_id = "bob"
    /\ token_file # NoneRec
    /\ token_file.user_id = "alice"

(***************************************************************************)
(* Spec: the access broker (the protected API operations) over a store     *)
(* that other programs fill, one call at a time, and the clock.            *)
(* SpecAuth: registration and login.  SpecStore: two processes calling the *)
(* storage class at the same time, the steps of save_token interleaved.    *)
(* SpecApp: the onboarding wizard beside the registration of users.        *)
(* SpecServer: the API server process from its start, with or without      *)
(* JWT_SECRET in its environment: registration, login, the protected       *)
(* operations and the health check.                                        *)
(* SpecEnhanced: the calls of EnhancedSecureTokenStorage with both        *)
(* encryption layers.  SpecClient: one SecureTokenClient against the       *)
(* server.                                                                 *)
(***************************************************************************)
Spec == Init /\ [][Next]_vars

SpecServer == InitServer /\ [][NextServer]_vars

SpecEnhanced == Init /\ [][NextEnhanced]_vars

SpecClient == Init /\ [][NextClient]_vars

SpecAuth == Init /\ [][NextAuth]_vars

SpecStore == Init /\ [][NextStore]_vars

SpecApp == Init /\ [][NextApp]_vars
====
